---- MODULE Spec2Model ----
(***************************************************************************)
(* Model of countdown.py: the depth-first solver solve, its pruning        *)
(* remove_unused_results, and the breadth-first solver solve_bfs in its    *)
(* three modes.  A behaviour takes one (target, selection) and calls the   *)
(* solvers on it one after the other: solve, then solve_bfs in first, all  *)
(* and largest_intermediate mode.  The calls share nothing but the input.  *)
(***************************************************************************)
EXTENDS Integers, Sequences, FiniteSets, TLC

\* ---------------------------------------------------------------- bounds
\* the selections taken systematically: every sequence of 1 to MaxLen
\* numbers of 0..MaxVal, with every target of -MaxNeg..MaxTarget
MaxLen == 2
MaxVal == 3
MaxTarget == 5
MaxNeg == 1

\* ---------------------------------------------------------------- inputs
RECURSIVE SeqsOfLen(_, _)
SeqsOfLen(S, n) ==
    IF n = 0 THEN {<<>>}
    ELSE {Append(s, x) : s \in SeqsOfLen(S, n - 1), x \in S}

SmallSelections == UNION {SeqsOfLen(0..MaxVal, n) : n \in 1..MaxLen}

Targets == (0 - MaxNeg)..MaxTarget

SmallInputs == [target : Targets, selection : SmallSelections]

\* every selection of three numbers of 0..2, with every target
MediumInputs == [target : Targets, selection : SeqsOfLen(0..2, 3)]

\* every selection of four numbers of 1..2, with two targets
LongInputs == [target : {6, 9}, selection : SeqsOfLen(1..2, 4)]

\* selections of five numbers
ExtraInputs ==
    { [target |-> 9, selection |-> <<1, 1, 1, 2, 2>>],
      [target |-> 0, selection |-> <<0, 1, 1, 0, 2>>] }

Inputs == SmallInputs \cup MediumInputs \cup LongInputs \cup ExtraInputs

\* ------------------------------------------------------------- operators
\* Body(x) for x the value of e: e is evaluated once, before Body is
With(e, Body(_)) == CHOOSE r \in {Body(x) : x \in {e}} : TRUE

OPS == <<"add", "sub", "mul", "truediv">>

ASSOCIATIVE_OPERATIONS == {"add", "mul"}

\* a division that rounds down (// for /) instead of keeping the fraction
ApplyFloorDiv(op, num1, num2) ==
    CASE op = "add" -> [err |-> FALSE, num |-> num1 + num2, den |-> 1]
      [] op = "sub" -> [err |-> FALSE, num |-> num1 - num2, den |-> 1]
      [] op = "mul" -> [err |-> FALSE, num |-> num1 * num2, den |-> 1]
      [] op = "truediv" ->
            IF num2 = 0 THEN [err |-> TRUE, num |-> 0, den |-> 1]
            ELSE [err |-> FALSE, num |-> num1 \div num2, den |-> 1]

\* op(num1, num2): the value is the fraction num/den (den > 0, den = 1 for
\* add, sub and mul); truediv by zero raises ZeroDivisionError.
Apply(op, num1, num2) ==
    CASE op = "add" -> [err |-> FALSE, num |-> num1 + num2, den |-> 1]
      [] op = "sub" -> [err |-> FALSE, num |-> num1 - num2, den |-> 1]
      [] op = "mul" -> [err |-> FALSE, num |-> num1 * num2, den |-> 1]
      [] op = "truediv" ->
            IF num2 = 0 THEN [err |-> TRUE, num |-> 0, den |-> 1]
            ELSE [err |-> FALSE, num |-> num1, den |-> num2]

\* a try statement without the except clause: nothing is caught
ExceptNothing(r) == FALSE

\* "except ZeroDivisionError: continue": the error op raised is caught
ExceptContinue(r) == r.err

\* result == n, for an integer n
ResEq(r, n) == r.num = n * r.den

\* int(result) == result
ResIntegral(r) == r.num % r.den = 0

\* the integer a result that passed int(result) == result stands for
ResVal(r) == r.num \div r.den

\* ------------------------------------------------ remove_unused_results
\* a pruning that looks for a result among the first operands only
remove_unused_results_num1_only(operations, target) ==
    LET used_results ==
            {operations[k][1] : k \in DOMAIN operations} \cup {target}
        used(op) == op[4] \in used_results
    IN SelectSeq(operations, used)

remove_unused_results(operations, target) ==
    LET used_results ==
            {operations[k][1] : k \in DOMAIN operations}
            \cup {operations[k][3] : k \in DOMAIN operations}
            \cup {target}
        used(op) == op[4] \in used_results
    IN SelectSeq(operations, used)

\* ---------------------------------------------------- used_pair_already
used_pair_already(num1, num2, already_used_pairs) ==
    \E k \in DOMAIN already_used_pairs :
        /\ num1 \in {already_used_pairs[k][1], already_used_pairs[k][2]}
        /\ num2 \in {already_used_pairs[k][1], already_used_pairs[k][2]}

\* list.remove(x): drop the first element equal to x
RECURSIVE ListRemove(_, _)
ListRemove(list, x) ==
    IF list = <<>> THEN <<>>
    ELSE IF Head(list) = x THEN Tail(list)
    ELSE With(Tail(list), LAMBDA rest : <<Head(list)>> \o ListRemove(rest, x))

\* ------------------------------------------------------------------ solve
\* A frame is one activation of solve: its arguments and the position of
\* its three nested loops (op, index1, index2 are the next candidate to
\* look at; op is past OPS when the loops are over).
NewFrame(selection, operations) ==
    [selection |-> selection, operations |-> operations,
     op |-> 1, index1 |-> 1, index2 |-> 1, already_used_pairs |-> <<>>]

\* result < 0 or int(result) != result or result in (num1, num2)
DfsRejected(r, num1, num2) ==
    \/ r.num < 0
    \/ ~ResIntegral(r)
    \/ ResEq(r, num1)
    \/ ResEq(r, num2)

\* The loop "for index2" of one activation, for its op and index1, from
\* its index2 on: up to the next return or recursive call, or to the end
\* of the loop (kind "next", index2 past the selection); kind "raise" is
\* an error of op that leaves the try statement.
RECURSIVE ScanRow(_, _)
ScanRow(f, target) ==
    IF f.index2 > Len(f.selection) THEN [kind |-> "next", frame |-> f]
    ELSE
      LET num1 == f.selection[f.index1]
          num2 == f.selection[f.index2]
          op == OPS[f.op]
          skip == [f EXCEPT !.index2 = @ + 1]
      IN
      IF f.index1 = f.index2 THEN With(skip, LAMBDA g : ScanRow(g, target))
      ELSE IF op \in ASSOCIATIVE_OPERATIONS
              /\ used_pair_already(num1, num2, f.already_used_pairs)
           THEN With(skip, LAMBDA g : ScanRow(g, target))
      ELSE
        LET f2 == IF op \in ASSOCIATIVE_OPERATIONS
                  THEN [f EXCEPT !.already_used_pairs = Append(@, <<num1, num2>>)]
                  ELSE f
            go_on == [f2 EXCEPT !.index2 = @ + 1]
            result == Apply(op, num1, num2)
        IN
        IF result.err
        THEN IF ExceptContinue(result)
             THEN With(go_on, LAMBDA g : ScanRow(g, target))
             ELSE [kind |-> "raise", frame |-> f2]
        ELSE IF ResEq(result, target)
             THEN [kind |-> "hit", frame |-> f2,
                   operation |-> <<num1, op, num2, ResVal(result)>>]
        ELSE IF DfsRejected(result, num1, num2)
             THEN With(go_on, LAMBDA g : ScanRow(g, target))
        ELSE [kind |-> "recurse", frame |-> go_on,
              operation |-> <<num1, op, num2, ResVal(result)>>]

\* The loop "for index1" of one activation, for its op, from its index1
\* on: up to the next return or recursive call, or to the end of the loop
\* (kind "nextop", index1 past the selection).
RECURSIVE ScanOp(_, _)
ScanOp(f, target) ==
    IF f.index1 > Len(f.selection) THEN [kind |-> "nextop", frame |-> f]
    ELSE With(ScanRow(f, target),
              LAMBDA row : IF row.kind = "next"
                           THEN With([row.frame EXCEPT !.index1 = @ + 1, !.index2 = 1],
                                     LAMBDA g : ScanOp(g, target))
                           ELSE row)

\* the next iteration of "for op": already_used_pairs starts empty
NextOp(f) ==
    [f EXCEPT !.op = @ + 1, !.index1 = 1, !.index2 = 1,
              !.already_used_pairs = <<>>]

\* Runs the loops of one activation from its position up to the next
\* return or recursive call.
RECURSIVE Scan(_, _)
Scan(f, target) ==
    IF f.op > Len(OPS) THEN [kind |-> "exhausted", frame |-> f]
    ELSE With(ScanOp(f, target),
              LAMBDA r : IF r.kind = "nextop"
                         THEN With(NextOp(r.frame), LAMBDA g : Scan(g, target))
                         ELSE r)

\* new_selection: both operands removed by value, the result appended
DfsNewSelection(selection, operation) ==
    Append(ListRemove(ListRemove(selection, operation[1]), operation[3]),
           operation[4])

\* ------------------------------------------------------------ _get_biggest
\* -math.inf is the key [neginf |-> TRUE]; largest_path is kept as
\* [none, path], none standing for the initial [(None, None, None, -inf)].
NoLargestPath == [none |-> TRUE, path |-> <<>>]

RECURSIVE BiggestFrom(_, _, _)
BiggestFrom(path, k, biggest) ==
    IF k > Len(path) THEN biggest
    ELSE With(IF biggest.neginf \/ path[k][4] > biggest.n
              THEN [neginf |-> FALSE, n |-> path[k][4]]
              ELSE biggest,
              LAMBDA b : BiggestFrom(path, k + 1, b))

_get_biggest(path) == BiggestFrom(path, 1, [neginf |-> TRUE, n |-> 0])

KeyOf(lp) == IF lp.none THEN [neginf |-> TRUE, n |-> 0] ELSE _get_biggest(lp.path)

KeyGreater(a, b) == ~a.neginf /\ (b.neginf \/ a.n > b.n)

\* max(largest_path, path, key=_get_biggest): the first of the greatest
MaxLargest(largest, path) ==
    IF KeyGreater(_get_biggest(path), KeyOf(largest))
    THEN [none |-> FALSE, path |-> path]
    ELSE largest

\* -------------------------------------------------------------- solve_bfs
Range(s) == {s[k] : k \in DOMAIN s}

\* frozenset(path)
PathSet(path) == Range(path)

\* subres <= 0 or int(subres) != subres
BfsRejected(r) == r.num <= 0 \/ ~ResIntegral(r)

\* a filter that forgets "and k != j": the second operand stays
new_numbers_keep_j(numbers, i, j) ==
    LET keep == SelectSeq([k \in DOMAIN numbers |-> k], LAMBDA k : k # i)
    IN [k \in DOMAIN keep |-> numbers[keep[k]]]

\* [n for k, n in enumerate(numbers) if k != i and k != j]
new_numbers(numbers, i, j) ==
    LET keep == SelectSeq([k \in DOMAIN numbers |-> k], LAMBDA k : k # i /\ k # j)
    IN [k \in DOMAIN keep |-> numbers[keep[k]]]

\* a queue[0] for queue.popleft(): the head stays in the queue
PopLeftPeek(q) == q

\* queue.popleft() leaves the rest of the queue
PopLeft(q) == Tail(q)

\* a queue.appendleft for queue.append: the new state goes to the head
EnqueueLeft(q, state) == <<state>> \o q

\* queue.append(state)
Enqueue(q, state) == Append(q, state)

\* One candidate (n1 at i, n2 at j, op) of the state being expanded: loop
\* holds queue, used_paths and the list of every path enqueued so far, and
\* raised, set when an error of op leaves the try statement.
TryCandidate(item, i, j, op, loop) ==
    LET n1 == item.numbers[i]
        n2 == item.numbers[j]
        subres == Apply(op, n1, n2)
    IN
    IF i = j THEN loop
    ELSE IF subres.err
         THEN IF ExceptContinue(subres) THEN loop
              ELSE [loop EXCEPT !.raised = TRUE]
    ELSE IF BfsRejected(subres) THEN loop
    ELSE
      LET new_path == Append(item.path, <<n1, op, n2, ResVal(subres)>>)
          new_path_set == PathSet(new_path)
          assoc_path_set == PathSet(Append(item.path, <<n2, op, n1, ResVal(subres)>>))
      IN
      IF op \in ASSOCIATIVE_OPERATIONS /\ assoc_path_set \in loop.used_paths THEN loop
      ELSE IF new_path_set \in loop.used_paths THEN loop
      ELSE [loop EXCEPT
              !.queue = Enqueue(@, [so_far |-> ResVal(subres),
                                    numbers |-> Append(new_numbers(item.numbers, i, j),
                                                       ResVal(subres)),
                                    path |-> new_path]),
              !.used_paths = @ \cup {new_path_set},
              !.enqueued = Append(@, new_path)]

\* "for op in OPS" for the pair at (i, j), from the k-th op on
RECURSIVE ForOps(_, _, _, _, _)
ForOps(item, i, j, k, loop) ==
    IF k > Len(OPS) \/ loop.raised THEN loop
    ELSE With(TryCandidate(item, i, j, OPS[k], loop),
              LAMBDA after : ForOps(item, i, j, k + 1, after))

\* "for j" over the dequeued state for the number at i, from j on
RECURSIVE ForJ(_, _, _, _)
ForJ(item, i, j, loop) ==
    IF j > Len(item.numbers) \/ loop.raised THEN loop
    ELSE With(ForOps(item, i, j, 1, loop),
              LAMBDA after : ForJ(item, i, j + 1, after))

\* "for i" over the dequeued state, from i on
RECURSIVE Expand(_, _, _)
Expand(item, i, loop) ==
    IF i > Len(item.numbers) \/ loop.raised THEN loop
    ELSE With(ForJ(item, i, 1, loop),
              LAMBDA after : Expand(item, i + 1, after))

\* ------------------------------------------------------------------ state
VARIABLES
    target,             \* the target of the run
    selection,          \* the selection of the run
    call,               \* the call in progress, or "none"
    ncalls,             \* how many calls were started
    stack,              \* solve: the activations, outermost first
    unpruned,           \* solve: operations as handed to remove_unused_results
    queue,              \* solve_bfs: queue
    used_paths,         \* solve_bfs: used_paths
    largest_path,       \* solve_bfs: largest_path
    all_solution_paths, \* solve_bfs: all_solution_paths
    enqueued,           \* solve_bfs: every path appended to queue, in order
    results             \* what each finished call returned

vars == <<target, selection, call, ncalls, stack, unpruned, queue, used_paths,
          largest_path, all_solution_paths, enqueued, results>>

dfsVars == <<stack, unpruned>>

bfsVars == <<queue, used_paths, largest_path, all_solution_paths, enqueued>>

\* the calls of one run, in order
CallOrder == <<"dfs", "first", "all", "largest_intermediate">>

BfsModes == {"first", "all", "largest_intermediate"}

\* the flags of solve_bfs in the call in progress
biggest == call = "largest_intermediate"

find_all == call = "all"

NotReturned ==
    [returned |-> FALSE, false |-> FALSE, sols |-> <<>>, raised |-> FALSE]

ReturnFalse ==
    [returned |-> TRUE, false |-> TRUE, sols |-> <<>>, raised |-> FALSE]

ReturnSols(sols) ==
    [returned |-> TRUE, false |-> FALSE, sols |-> sols, raised |-> FALSE]

\* the call ended in an exception instead of returning
Raised ==
    [returned |-> FALSE, false |-> FALSE, sols |-> <<>>, raised |-> TRUE]

Init ==
    /\ \E inp \in Inputs : target = inp.target /\ selection = inp.selection
    /\ call = "none"
    /\ ncalls = 0
    /\ stack = <<>>
    /\ unpruned = <<>>
    /\ queue = <<>>
    /\ used_paths = {}
    /\ largest_path = NoLargestPath
    /\ all_solution_paths = <<>>
    /\ enqueued = <<>>
    /\ results = [m \in Range(CallOrder) |-> NotReturned]

\* the caller: solve(target, selection, False)
CallSolve ==
    /\ call = "none"
    /\ ncalls < Len(CallOrder)
    /\ CallOrder[ncalls + 1] = "dfs"
    /\ call' = "dfs"
    /\ ncalls' = ncalls + 1
    /\ stack' = <<NewFrame(selection, <<>>)>>
    /\ unpruned' = <<>>
    /\ UNCHANGED <<target, selection, bfsVars, results>>

\* the caller: solve_bfs(target, selection, biggest, find_all), up to the
\* while loop
CallSolveBfs ==
    /\ call = "none"
    /\ ncalls < Len(CallOrder)
    /\ CallOrder[ncalls + 1] \in BfsModes
    /\ call' = CallOrder[ncalls + 1]
    /\ ncalls' = ncalls + 1
    /\ queue' = <<[so_far |-> 0, numbers |-> selection, path |-> <<>>]>>
    /\ largest_path' = NoLargestPath
    /\ used_paths' = {}
    /\ all_solution_paths' = <<>>
    /\ enqueued' = << <<>> >>
    /\ UNCHANGED <<target, selection, dfsVars, results>>

Top == stack[Len(stack)]

\* "return False" of the innermost activation: the caller's
\* "if solution_operations" fails and its loops go on
DfsReturnFalse ==
    /\ stack' = SubSeq(stack, 1, Len(stack) - 1)
    /\ IF Len(stack) = 1
       THEN /\ call' = "none"
            /\ results' = [results EXCEPT !["dfs"] = ReturnFalse]
       ELSE UNCHANGED <<call, results>>
    /\ UNCHANGED <<target, selection, ncalls, unpruned, bfsVars>>

\* if len(selection) <= 1: return False
DfsBase ==
    /\ call = "dfs"
    /\ Len(Top.selection) <= 1
    /\ DfsReturnFalse

\* an exception leaves the innermost activation: no caller catches it, and
\* the call of solve ends in it
DfsRaise ==
    /\ stack' = <<>>
    /\ call' = "none"
    /\ results' = [results EXCEPT !["dfs"] = Raised]
    /\ UNCHANGED <<target, selection, ncalls, unpruned, bfsVars>>

\* the loops end without a hit: return False (or they are left by an error
\* of op that was not caught)
DfsExhausted ==
    /\ call = "dfs"
    /\ Len(Top.selection) > 1
    /\ \E s \in {Scan(Top, target)} :
       \/ s.kind = "exhausted" /\ DfsReturnFalse
       \/ s.kind = "raise" /\ DfsRaise

\* an admissible candidate: solve(target, new_selection, new_operations)
DfsRecurse ==
    /\ call = "dfs"
    /\ Len(Top.selection) > 1
    /\ \E s \in {Scan(Top, target)} :
       /\ s.kind = "recurse"
       /\ stack' = Append([stack EXCEPT ![Len(stack)] = s.frame],
                          NewFrame(DfsNewSelection(Top.selection, s.operation),
                                   Append(Top.operations, s.operation)))
    /\ UNCHANGED <<target, selection, call, ncalls, unpruned, bfsVars, results>>

\* result == target: the pruned operations are returned, and every caller
\* up the stack returns them as they are (a non-empty tuple is true)
DfsHit ==
    /\ call = "dfs"
    /\ Len(Top.selection) > 1
    /\ \E s \in {Scan(Top, target)} :
       /\ s.kind = "hit"
       /\ \E operations \in {Append(Top.operations, s.operation)} :
          \E pruned \in {remove_unused_results(operations, target)} :
          /\ unpruned' = operations
          /\ IF pruned # <<>> \/ Len(stack) = 1
             THEN /\ stack' = <<>>
                  /\ call' = "none"
                  /\ results' = [results EXCEPT !["dfs"] = ReturnSols(<<pruned>>)]
             ELSE /\ stack' = SubSeq(stack, 1, Len(stack) - 1)
                  /\ UNCHANGED <<call, results>>
    /\ UNCHANGED <<target, selection, ncalls, bfsVars>>

\* so_far == target in first mode: return [path]
BfsReturnFirst ==
    /\ call \in BfsModes
    /\ queue # <<>>
    /\ Head(queue).so_far = target
    /\ ~biggest /\ ~find_all
    /\ queue' = PopLeft(queue)
    /\ results' = [results EXCEPT ![call] = ReturnSols(<<Head(queue).path>>)]
    /\ call' = "none"
    /\ UNCHANGED <<target, selection, ncalls, dfsVars, used_paths, largest_path,
                   all_solution_paths, enqueued>>

\* so_far == target with biggest: keep the greater of largest_path and path
BfsRecordBiggest ==
    /\ call \in BfsModes
    /\ queue # <<>>
    /\ Head(queue).so_far = target
    /\ biggest
    /\ queue' = PopLeft(queue)
    /\ largest_path' = MaxLargest(largest_path, Head(queue).path)
    /\ UNCHANGED <<target, selection, call, ncalls, dfsVars, used_paths,
                   all_solution_paths, enqueued, results>>

\* so_far == target with find_all: all_solution_paths.append(path)
BfsRecordAll ==
    /\ call \in BfsModes
    /\ queue # <<>>
    /\ Head(queue).so_far = target
    /\ ~biggest /\ find_all
    /\ queue' = PopLeft(queue)
    /\ all_solution_paths' = Append(all_solution_paths, Head(queue).path)
    /\ UNCHANGED <<target, selection, call, ncalls, dfsVars, used_paths,
                   largest_path, enqueued, results>>

\* so_far != target: every candidate of the dequeued state (an error of op
\* that was not caught ends the call)
BfsExpand ==
    /\ call \in BfsModes
    /\ queue # <<>>
    /\ Head(queue).so_far # target
    /\ \E loop \in {Expand(Head(queue), 1,
                            [queue |-> PopLeft(queue), used_paths |-> used_paths,
                             enqueued |-> enqueued, raised |-> FALSE])} :
          /\ queue' = loop.queue
          /\ used_paths' = loop.used_paths
          /\ enqueued' = loop.enqueued
          /\ IF loop.raised
             THEN /\ call' = "none"
                  /\ results' = [results EXCEPT ![call] = Raised]
             ELSE UNCHANGED <<call, results>>
    /\ UNCHANGED <<target, selection, ncalls, dfsVars, largest_path,
                   all_solution_paths>>

\* the code after the while loop without the test "is not None":
\* [largest_path] is returned whatever it holds
BfsFinishNoNoneTest ==
    /\ call \in BfsModes
    /\ queue = <<>>
    /\ results' = [results EXCEPT ![call] =
                      IF find_all THEN ReturnSols(all_solution_paths)
                      ELSE ReturnSols(<<largest_path.path>>)]
    /\ call' = "none"
    /\ UNCHANGED <<target, selection, ncalls, dfsVars, bfsVars>>

\* the queue is empty: the code after the while loop
BfsFinish ==
    /\ call \in BfsModes
    /\ queue = <<>>
    /\ results' = [results EXCEPT ![call] =
                      IF find_all THEN ReturnSols(all_solution_paths)
                      ELSE IF ~largest_path.none THEN ReturnSols(<<largest_path.path>>)
                      ELSE ReturnFalse]
    /\ call' = "none"
    /\ UNCHANGED <<target, selection, ncalls, dfsVars, bfsVars>>

Next ==
    \/ CallSolve
    \/ CallSolveBfs
    \/ DfsBase
    \/ DfsExhausted
    \/ DfsRecurse
    \/ DfsHit
    \/ BfsReturnFirst
    \/ BfsRecordBiggest
    \/ BfsRecordAll
    \/ BfsExpand
    \/ BfsFinish

Spec == Init /\ [][Next]_vars

\* every step of a call is taken: the interpreter runs the call to its end
LiveSpec == Spec /\ WF_vars(Next)

AllReturned == \A m \in Range(CallOrder) : results[m].returned

\* ------------------------------------------------------------ solve alone
\* selections of five numbers, all different, and a selection of four with
\* a number twice
DeepInputs ==
    { [target |-> 1, selection |-> <<5, 6, 4, 2, 3>>],
      [target |-> 3, selection |-> <<4, 5, 6, 1, 2>>],
      [target |-> 0 - 1, selection |-> <<0, 5, 3, 1, 2>>],
      [target |-> 20, selection |-> <<2, 1, 1, 3>>] }

SolveInputs == Inputs \cup DeepInputs

\* a run with the option "-s dfs": solve is the only solver called
SolveInit ==
    /\ \E inp \in SolveInputs : target = inp.target /\ selection = inp.selection
    /\ call = "none"
    /\ ncalls = 0
    /\ stack = <<>>
    /\ unpruned = <<>>
    /\ queue = <<>>
    /\ used_paths = {}
    /\ largest_path = NoLargestPath
    /\ all_solution_paths = <<>>
    /\ enqueued = <<>>
    /\ results = [m \in Range(CallOrder) |-> NotReturned]

SolveNext ==
    \/ CallSolve
    \/ DfsBase
    \/ DfsExhausted
    \/ DfsRecurse
    \/ DfsHit

SolveSpec == SolveInit /\ [][SolveNext]_vars

\* ------------------------------------------------ vocabulary of the claims
Modes == Range(CallOrder)

\* the call of mode m has just returned
JustReturned(m) == call = "none" /\ ncalls >= 1 /\ CallOrder[ncalls] = m

\* the Solutions the call of mode m returned (none before it returns, and
\* none when it returned False)
Solutions(m) == Range(results[m].sols)

\* an Operation read on its own: result = operator(operand1, operand2)
\* exactly, a quotient being exact when it times the divisor is the dividend
OpExact(o) ==
    CASE o[2] = "add" -> o[4] = o[1] + o[3]
      [] o[2] = "sub" -> o[4] = o[1] - o[3]
      [] o[2] = "mul" -> o[4] = o[1] * o[3]
      [] o[2] = "truediv" -> o[3] # 0 /\ o[4] * o[3] = o[1]

\* a sequence as a bag: how many times each member occurs
SeqToBag(s) == [v \in Range(s) |-> Cardinality({k \in DOMAIN s : s[k] = v})]

Copies(bag, v) == IF v \in DOMAIN bag THEN bag[v] ELSE 0

\* the bag after one operation: both operands taken out, the result put in
BagAfter(bag, o) ==
    LET taken(v) == (IF v = o[1] THEN 1 ELSE 0) + (IF v = o[3] THEN 1 ELSE 0)
        put(v) == IF v = o[4] THEN 1 ELSE 0
        dom == {v \in DOMAIN bag \cup {o[4]} : Copies(bag, v) - taken(v) + put(v) > 0}
    IN [v \in dom |-> Copies(bag, v) - taken(v) + put(v)]

\* both operands are in the bag, as two distinct members
OperandsIn(bag, o) ==
    IF o[1] = o[3] THEN Copies(bag, o[1]) >= 2
    ELSE Copies(bag, o[1]) >= 1 /\ Copies(bag, o[3]) >= 1

\* path replays on the bag from its k-th operation on
RECURSIVE ReplaysFrom(_, _, _)
ReplaysFrom(bag, path, k) ==
    IF k > Len(path) THEN TRUE
    ELSE /\ OperandsIn(bag, path[k])
         /\ ReplaysFrom(BagAfter(bag, path[k]), path, k + 1)

Replays(path) == ReplaysFrom(SeqToBag(selection), path, 1)

\* the results two numbers of a bag can be replaced by: +, -, * or exact /
\* in either order, non-negative integers only
ValidResults(a, b) ==
    {a + b, a * b}
    \cup (IF a >= b THEN {a - b} ELSE {b - a})
    \cup (IF b # 0 /\ a % b = 0 THEN {a \div b} ELSE {})
    \cup (IF a # 0 /\ b % a = 0 THEN {b \div a} ELSE {})

\* the last results of the valid operation sequences of 1 to n operations
\* from the numbers nums
RECURSIVE ReachableWithin(_, _)
ReachableWithin(nums, n) ==
    IF n <= 0 \/ Len(nums) < 2 THEN {}
    ELSE UNION
      { LET rest == SelectSeq([k \in DOMAIN nums |-> <<k, nums[k]>>],
                              LAMBDA e : e[1] # pr[1] /\ e[1] # pr[2])
            rs == ValidResults(nums[pr[1]], nums[pr[2]])
        IN rs \cup UNION {ReachableWithin(Append([k \in DOMAIN rest |-> rest[k][2]], r),
                                          n - 1) : r \in rs}
        : pr \in {q \in (DOMAIN nums) \X (DOMAIN nums) : q[1] < q[2]} }

\* the target can be reached from the selection by a valid operation sequence
Solvable == target \in ReachableWithin(selection, Len(selection) - 1)

\* -------------------------------------------------------------------- C1
\* C1 as stated: every Operation of every returned Solution, of solve and of
\* solve_bfs in every mode, for every target, has result =
\* operator(operand1, operand2) exactly, result >= 0 and result integral.
C1_AsStated ==
    \A m \in Modes : \A path \in Solutions(m) : \A k \in DOMAIN path :
        OpExact(path[k]) /\ path[k][4] >= 0

\* C1, amended: every Operation of every returned Solution has result =
\* operator(operand1, operand2) exactly and integral, and result >= 0 except
\* for the last Operation of a Solution of solve for a negative target, whose
\* result is that target.
C1_OperationsExact ==
    \A m \in Modes : \A path \in Solutions(m) : \A k \in DOMAIN path :
        /\ OpExact(path[k])
        /\ \/ path[k][4] >= 0
           \/ /\ m = "dfs"
              /\ k = Len(path)
              /\ target < 0
              /\ path[k][4] = target

\* a Solution of two operations or more with a division in it was returned
C1_Witness ==
    \E m \in Modes : \E path \in Solutions(m) :
        /\ Len(path) >= 2
        /\ \E k \in DOMAIN path : path[k][2] = "truediv"

\* -------------------------------------------------------------------- C2
\* C2 as stated: when solve_bfs in first mode returns a Solution of k
\* operations, no valid operation sequence of fewer than k operations
\* reaches the target from the selection.
C2_FirstModeMinimal ==
    JustReturned("first") =>
        \A path \in Solutions("first") :
            target \notin ReachableWithin(selection, Len(path) - 1)

\* -------------------------------------------------------------------- C3
\* C3: every returned Solution, of solve (after pruning) and of solve_bfs in
\* every mode, replays on the selection as a bag: each operation finds both
\* its operands in the bag as two distinct members, takes them out and puts
\* its result in; and the result of its last operation is the target.
C3_SolutionsReplay ==
    \A m \in Modes : \A path \in Solutions(m) :
        /\ Replays(path)
        /\ path # <<>> => path[Len(path)][4] = target

\* solve returned a Solution of two operations or more that pruning shortened
C3_Witness ==
    /\ results["dfs"].returned
    /\ \E path \in Solutions("dfs") : Len(path) >= 2 /\ Len(path) < Len(unpruned)

\* -------------------------------------------------------------------- C4
\* C4 as stated: every returned Solution, of solve and of solve_bfs in every
\* mode, has at least one operation, for every target including 0.
C4_NoEmptySolution ==
    \A m \in Modes : \A path \in Solutions(m) : Len(path) >= 1

\* -------------------------------------------------------------------- C5
\* C5 as stated: remove_unused_results is idempotent, here on the operations
\* solve hands to it: pruning the pruned path again changes nothing.
C5_PruneIdempotent ==
    (results["dfs"].returned /\ ~results["dfs"].false) =>
        remove_unused_results(remove_unused_results(unpruned, target), target)
            = remove_unused_results(unpruned, target)

\* -------------------------------------------------------------------- C6
\* C6 as stated: solve returns False only if no valid operation sequence
\* reaches the target from the selection.
C6_DfsExhaustive ==
    (JustReturned("dfs") /\ results["dfs"].false) => ~Solvable

\* -------------------------------------------------------------------- C7
\* C7 as stated: solve_bfs returns False in first mode, and an empty list in
\* all mode, only if no valid operation sequence reaches the target from the
\* selection.
C7_BfsExhaustive ==
    /\ (JustReturned("first") /\ results["first"].false) => ~Solvable
    /\ (JustReturned("all") /\ results["all"].sols = <<>>) => ~Solvable

\* -------------------------------------------------------------------- C8
\* C8 as stated: if all mode returns a non-empty list L, largest_intermediate
\* mode returns exactly one Solution, which is in L, whose greatest result is
\* at least that of every member of L, and which is the first of L with that
\* greatest result.
AtLeastAsBig(p, q) ==
    \A k \in DOMAIN q : \E j \in DOMAIN p : p[j][4] >= q[k][4]

C8_LargestIsFirstBestOfAll ==
    (AllReturned /\ results["all"].sols # <<>>) =>
        LET L == results["all"].sols
            best == results["largest_intermediate"].sols
        IN /\ ~results["largest_intermediate"].false
           /\ Len(best) = 1
           /\ \E k \in DOMAIN L :
                /\ L[k] = best[1]
                /\ \A j \in DOMAIN L : AtLeastAsBig(L[k], L[j])
                /\ \A j \in 1..(k - 1) : ~AtLeastAsBig(L[j], L[k])

\* -------------------------------------------------------------------- C9
\* two paths are equivalent: the same operations as bags, or the same once
\* the operands of one Add or Mul of the first are swapped
SwapAt(path, k) ==
    [path EXCEPT ![k] = <<path[k][3], path[k][2], path[k][1], path[k][4]>>]

Equivalent(p, q) ==
    \/ SeqToBag(p) = SeqToBag(q)
    \/ \E k \in DOMAIN p :
          /\ p[k][2] \in {"add", "mul"}
          /\ SeqToBag(SwapAt(p, k)) = SeqToBag(q)

\* C9 as stated: during one run of solve_bfs no two paths that are ever
\* enqueued are equivalent.
C9_NoEquivalentEnqueued ==
    \A a \in DOMAIN enqueued : \A b \in DOMAIN enqueued :
        a < b => ~Equivalent(enqueued[a], enqueued[b])

\* ------------------------------------------------------------------- C10
\* every path a call holds, has enqueued or has returned has at most
\* len(selection) - 1 operations
PathsBounded ==
    LET bounded(path) == Len(path) <= Len(selection) - 1 IN
    /\ \A k \in DOMAIN stack : bounded(stack[k].operations)
    /\ bounded(unpruned)
    /\ \A k \in DOMAIN queue : bounded(queue[k].path)
    /\ \A k \in DOMAIN enqueued : bounded(enqueued[k])
    /\ \A k \in DOMAIN all_solution_paths : bounded(all_solution_paths[k])
    /\ bounded(largest_path.path)
    /\ \A m \in Modes : \A path \in Solutions(m) : bounded(path)

\* C10: both solvers terminate, every call returning, and no path explored,
\* enqueued or returned has more than len(selection) - 1 operations.
C10_TerminatesWithinBound == []PathsBounded /\ <>(AllReturned /\ call = "none")

\* every call returned, and a path of len(selection) - 1 operations, two at
\* least, was enqueued
C10_Witness ==
    /\ AllReturned
    /\ call = "none"
    /\ Len(selection) >= 3
    /\ \E k \in DOMAIN enqueued : Len(enqueued[k]) = Len(selection) - 1

\* ------------------------------------------------------------------- C11
\* no call has ended in an exception
NoErrorState == \A m \in Modes : ~results[m].raised

\* the expansion of the dequeued state reaches every candidate the filter
\* admits: its path, or the path with the operands of its Add or Mul
\* swapped, is among the seen paths afterwards
ExpansionGoesOn ==
    (call \in BfsModes /\ queue # <<>> /\ Head(queue).so_far # target) =>
        LET item == Head(queue) IN
        \A i \in DOMAIN item.numbers : \A j \in DOMAIN item.numbers :
        \A k \in DOMAIN OPS :
            LET n1 == item.numbers[i]
                n2 == item.numbers[j]
                r == Apply(OPS[k], n1, n2)
            IN (i # j /\ ~r.err /\ ~BfsRejected(r)) =>
                  \/ PathSet(Append(item.path, <<n1, OPS[k], n2, ResVal(r)>>))
                        \in used_paths'
                  \/ /\ OPS[k] \in ASSOCIATIVE_OPERATIONS
                     /\ PathSet(Append(item.path, <<n2, OPS[k], n1, ResVal(r)>>))
                           \in used_paths'

\* C11: a division by 0 and a division that is not exact only skip their
\* candidate: neither solve nor solve_bfs ever ends in an error, solve_bfs
\* goes on to every other candidate of the state, and every call ends by
\* returning a Solution or the no-solution result.
C11_DivisionOnlySkips ==
    /\ []NoErrorState
    /\ [][ExpansionGoesOn]_vars
    /\ <>(AllReturned /\ call = "none")

\* every call returned for a selection with a 0 in it, solve with a Solution
\* and solve_bfs in all mode with a Solution that divides
C11_Witness ==
    /\ AllReturned
    /\ call = "none"
    /\ 0 \in Range(selection)
    /\ Len(selection) >= 3
    /\ \E path \in Solutions("dfs") : path # <<>>
    /\ \E path \in Solutions("all") :
          \E k \in DOMAIN path : path[k][2] = "truediv"

\* ------------------------------------------------------------------- C12
\* the paths the step appends to the queue
NewlyEnqueued == {enqueued'[x] : x \in (Len(enqueued) + 1)..Len(enqueued')}

\* every candidate of the dequeued state is admitted by solve_bfs exactly
\* when the filter of solve admits it: admitted, its path (or the path with
\* the operands of its Add or Mul swapped) is among the seen paths
\* afterwards; rejected, its path is not appended to the queue
SameFilterAsSolve ==
    (call \in BfsModes /\ queue # <<>> /\ Head(queue).so_far # target) =>
        LET item == Head(queue) IN
        \A i \in DOMAIN item.numbers : \A j \in DOMAIN item.numbers :
        \A k \in DOMAIN OPS :
            LET n1 == item.numbers[i]
                n2 == item.numbers[j]
                r == Apply(OPS[k], n1, n2)
                new_path == Append(item.path, <<n1, OPS[k], n2, ResVal(r)>>)
                assoc_path == Append(item.path, <<n2, OPS[k], n1, ResVal(r)>>)
            IN (i # j /\ ~r.err) =>
                  IF DfsRejected(r, n1, n2)
                  THEN new_path \notin NewlyEnqueued
                  ELSE \/ PathSet(new_path) \in used_paths'
                       \/ /\ OPS[k] \in ASSOCIATIVE_OPERATIONS
                          /\ PathSet(assoc_path) \in used_paths'

\* C12 as stated: solve_bfs admits a candidate (subject to path dedup) if
\* and only if its result is >= 0, integral and not equal to either operand,
\* the filter of solve: a result of 0 is admitted, a result equal to an
\* operand is rejected.
C12_SameFilterAsSolve == [][SameFilterAsSolve]_vars

\* ------------------------------------------------------------------- C13
\* no value occurs twice among the source numbers and the results of the
\* operations of the unpruned path
NoValueTwice ==
    LET vals == selection \o [k \in DOMAIN unpruned |-> unpruned[k][4]]
    IN \A a \in DOMAIN vals : \A b \in DOMAIN vals : a # b => vals[a] # vals[b]

\* every operation of path but the last has its result among the operands
\* of a later operation of path
NoDeadOperation(path) ==
    \A k \in 1..(Len(path) - 1) :
        \E j \in (k + 1)..Len(path) : path[k][4] \in {path[j][1], path[j][3]}

\* C13 as stated: in the path solve returns, when no value occurs twice
\* among the source numbers and the results of the unpruned path, every
\* operation other than the last has its result used as an operand of a
\* later operation of the returned path.
C13_NoDeadOperation ==
    (results["dfs"].returned /\ ~results["dfs"].false /\ NoValueTwice) =>
        \A path \in Solutions("dfs") : NoDeadOperation(path)

\* ------------------------------------------------------------------- C14
\* the pairs of positions the loops of activation f have passed for its op
PairsBefore(f) ==
    {pr \in (DOMAIN f.selection) \X (DOMAIN f.selection) :
        /\ pr[1] # pr[2]
        /\ \/ pr[1] < f.index1
           \/ pr[1] = f.index1 /\ pr[2] < f.index2}

\* prev_pair is the unordered pair of the values a and b
SamePair(prev_pair, a, b) ==
    \/ prev_pair[1] = a /\ prev_pair[2] = b
    \/ prev_pair[1] = b /\ prev_pair[2] = a

\* C14 as stated: within one call of solve and one operator among Add and
\* Mul, every unordered pair of values at two distinct positions the loops
\* have passed was tried (a pair is skipped only if that same unordered pair
\* was tried already, so not the pair (v, v) after a pair (v, w)), and no
\* unordered pair was tried twice.
C14_PairsTriedOnce ==
    \A k \in DOMAIN stack :
        LET f == stack[k]
            tried == f.already_used_pairs
        IN (f.op <= Len(OPS) /\ OPS[f.op] \in ASSOCIATIVE_OPERATIONS) =>
              /\ \A pr \in PairsBefore(f) :
                    \E x \in DOMAIN tried :
                        SamePair(tried[x], f.selection[pr[1]], f.selection[pr[2]])
              /\ \A x \in DOMAIN tried : \A y \in DOMAIN tried :
                    x < y => ~SamePair(tried[x], tried[y][1], tried[y][2])

\* ------------------------------------------------------------------- C15
\* every candidate of the dequeued state that passed the arithmetic filter
\* and whose path the step did not append to the queue has an equivalent
\* path among the paths enqueued in the run
DroppedOnlyForEquivalent ==
    (call \in BfsModes /\ queue # <<>> /\ Head(queue).so_far # target) =>
        LET item == Head(queue) IN
        \A i \in DOMAIN item.numbers : \A j \in DOMAIN item.numbers :
        \A k \in DOMAIN OPS :
            LET n1 == item.numbers[i]
                n2 == item.numbers[j]
                r == Apply(OPS[k], n1, n2)
                new_path == Append(item.path, <<n1, OPS[k], n2, ResVal(r)>>)
            IN (i # j /\ ~r.err /\ ~BfsRejected(r)
                      /\ new_path \notin NewlyEnqueued) =>
                  \E x \in DOMAIN enqueued' : Equivalent(new_path, enqueued'[x])

\* C15 as stated: solve_bfs drops a newly generated path whose candidate
\* passed the arithmetic filter only if an equivalent path (the same
\* operations as bags, or the same once the operands of one Add or Mul are
\* swapped, so a path of the same length) was enqueued in the same run.
C15_DroppedOnlyForEquivalent == [][DroppedOnlyForEquivalent]_vars

\* ------------------------------------------------------------------- C16
\* the paths of the list are in non-decreasing order of length
NonDecreasingLength(paths) ==
    \A k \in 1..(Len(paths) - 1) : Len(paths[k]) <= Len(paths[k + 1])

\* C16: at every point of a solve_bfs run the paths in the queue are in
\* non-decreasing order of length from head to tail, the longest at most one
\* operation longer than the shortest, and the Solutions all mode collects
\* and returns are listed in non-decreasing number of operations.
C16_QueueInLevelOrder ==
    LET paths == [k \in DOMAIN queue |-> queue[k].path] IN
    /\ NonDecreasingLength(paths)
    /\ paths # <<>> => Len(paths[Len(paths)]) <= Len(paths[1]) + 1
    /\ NonDecreasingLength(all_solution_paths)
    /\ NonDecreasingLength(results["all"].sols)

\* all mode returned Solutions of different lengths, and the queue of the
\* next call holds paths of two lengths
C16_Witness ==
    /\ \E a \in Solutions("all") : \E b \in Solutions("all") : Len(a) # Len(b)
    /\ call = "largest_intermediate"
    /\ Len(queue) >= 3
    /\ Len(queue[1].path) >= 1
    /\ Len(queue[Len(queue)].path) = Len(queue[1].path) + 1

\* ------------------------------------------------------------------- C17
\* the bag left by replaying path, from its k-th operation on, on bag
RECURSIVE BagAfterPath(_, _, _)
BagAfterPath(bag, path, k) ==
    IF k > Len(path) THEN bag
    ELSE BagAfterPath(BagAfter(bag, path[k]), path, k + 1)

\* the state (so_far, numbers, path) is consistent with the selection
ConsistentState(state) ==
    /\ Replays(state.path)
    /\ SeqToBag(state.numbers) = BagAfterPath(SeqToBag(selection), state.path, 1)
    /\ Len(state.numbers) + Len(state.path) = Len(selection)
    /\ state.so_far = IF state.path = <<>> THEN 0
                      ELSE state.path[Len(state.path)][4]

\* C17: every state held in the queue of solve_bfs is consistent: numbers is
\* the bag obtained by replaying path on the selection, len(numbers) +
\* len(path) = len(selection), and so_far is the result of the last
\* operation of path, or 0 for the root.
C17_QueueStatesConsistent ==
    \A k \in DOMAIN queue : ConsistentState(queue[k])

\* the queue holds a state two operations or more from the root with two
\* numbers or more left
C17_Witness ==
    \E k \in DOMAIN queue :
        Len(queue[k].path) >= 2 /\ Len(queue[k].numbers) >= 2

\* ------------------------------------------------------------------- C18
\* C18: solve_bfs in first mode and in all mode agree: first mode returns
\* failure exactly when all mode returns an empty list, and otherwise the
\* one Solution first mode returns is the first Solution of the list all
\* mode returns.
C18_FirstIsHeadOfAll ==
    (results["first"].returned /\ results["all"].returned) =>
        LET first == results["first"]
            all == results["all"]
        IN /\ ~all.false
           /\ first.false <=> all.sols = <<>>
           /\ ~first.false => /\ Len(first.sols) = 1
                              /\ first.sols[1] = all.sols[1]

\* both modes returned, all mode with two Solutions or more, the first of
\* two operations or more
C18_Witness ==
    /\ results["first"].returned
    /\ results["all"].returned
    /\ Len(results["all"].sols) >= 2
    /\ Len(results["all"].sols[1]) >= 2

====
